---- MODULE Spec2Model ----
(***************************************************************************)
(* Project dashboard (src/app/page.tsx): the record mapper, the date       *)
(* helpers, the derived views and the ProjectDashboard controller with its *)
(* load-once and persist effects, against a remote "projects" collection.  *)
(*                                                                         *)
(* Time is counted in ticks; TicksPerDay ticks make a day and one tick     *)
(* stands for the clock's resolution (1 ms in the source), so the last     *)
(* tick of a local day stands for 23:59:59.999.  An instant is a number of *)
(* ticks since the epoch in UTC; tz is the local zone: its offset from UTC *)
(* in ticks (local = UTC + off) and, for a zone with daylight saving time, *)
(* the local day on which the clocks are set back by one tick.             *)
(*                                                                         *)
(* A JavaScript value read from a stored document is a record tagged with  *)
(* its typeof.  A string held in a date field is [k |-> "iso", day |-> d]  *)
(* for "yyyy-mm-dd" (d the day number), or [k |-> "text", s |-> ...] for   *)
(* the empty string and for text that Date cannot parse.                   *)
(***************************************************************************)
EXTENDS Integers, Sequences, FiniteSets, TLC

VARIABLES
    now,        \* the clock, an instant (new Date())
    tz,         \* the local time zone
    idSeq,      \* how many ids generateId has handed out
    acts,       \* how many events the user has raised
    remote,     \* the "projects" collection: document key -> document or NoDoc
    pending,    \* remote calls in flight (setDoc, deleteDoc), each with the handler behind it
    loadPc,     \* the load-once effect: "fetching", "done" or "failed"
    projects,   \* useState<Project[]>
    loaded,     \* useState(false)
    q,          \* search text
    showArchived,
    tab,
    cursor,     \* the calendar's month cursor {y, m0}
    open,       \* dialog open
    editing,    \* Project being edited, or NoProject
    form,       \* the draft
    faText,     \* raw "functional areas" text, as its comma-separated segments
    last,       \* the last event: a handler with its arguments, or the load's outcome
    stored,     \* mapper study: the stored document handed to the mapper
    mapped,     \* mapper study: what the mapper returned, or that it raised
    orig,       \* mapper study: the Project that was stored before mapping
    call,       \* helper study: the helper called and its arguments
    ret,        \* helper study: what the helper returned
    peer        \* a second browser session on the same collection

vars == <<now, tz, idSeq, acts, remote, pending, loadPc, projects,
          loaded, q, showArchived, tab, cursor, open, editing, form, faText,
          last, stored, mapped, orig, call, ret, peer>>

ctlVars == <<now, tz, idSeq, acts, remote, pending, loadPc, projects,
             loaded, q, showArchived, tab, cursor, open, editing, form, faText,
             last>>

studyVars == <<stored, mapped, orig, call, ret, peer>>

----------------------------------------------------------------------------
(* Bounds *)

TicksPerDay == 2
MaxGen == 3
MaxPending == 2
MaxProjects == 2
MaxActs == 3

----------------------------------------------------------------------------
(* JavaScript values *)

Missing == [t |-> "undefined"]
Null == [t |-> "object"]
Num == [t |-> "number", n |-> 7]
Bool(b) == [t |-> "boolean", b |-> b]
Str(s) == [t |-> "string", s |-> s]
Arr(xs) == [t |-> "array", items |-> xs]
Obj(o) == [t |-> "object", o |-> o]

EmptyText == [k |-> "text", s |-> ""]
JunkText == [k |-> "text", s |-> "soon"]
Iso(d) == [k |-> "iso", day |-> d]

IsString(x) == x.t = "string"
\* typeof x === "string" && x, for a field holding plain text
NonEmptyString(x) == IsString(x) /\ x.s # ""
\* typeof x === "string" && x, for a date field
NonEmptyDateString(x) == IsString(x) /\ x.s # EmptyText
IsArray(x) == x.t = "array"
\* typeof x === "object" && x !== null
IsObject(x) == x.t = "object" /\ "o" \in DOMAIN x

\* String(v)
ToStr(v) ==
    CASE v.t = "string" -> v.s
      [] v.t = "number" -> "7"
      [] v.t = "boolean" -> IF v.b THEN "true" ELSE "false"
      [] v.t = "undefined" -> "undefined"
      [] v.t = "array" -> "array"
      [] OTHER -> IF IsObject(v) THEN "[object Object]" ELSE "null"

\* Boolean(v)
Truthy(v) ==
    CASE v.t = "string" -> v.s # ""
      [] v.t = "number" -> v.n # 0
      [] v.t = "boolean" -> v.b
      [] v.t = "undefined" -> FALSE
      [] v.t = "array" -> TRUE
      [] OTHER -> IsObject(v)

SeqMap(s, f(_)) == [i \in 1..Len(s) |-> f(s[i])]

Range(s) == {s[i] : i \in DOMAIN s}

----------------------------------------------------------------------------
(* Helpers (id, date, progress) *)

GenNames == <<"g1", "g2", "g3", "g4", "g5", "g6", "g7", "g8">>

\* generateId(): the n-th id handed out; ids are never handed out twice
generateId(n) == GenNames[n]

InvalidDate == [valid |-> FALSE]
DateAt(t) == [valid |-> TRUE, t |-> t]

\* a zone that keeps the UTC offset off
FixedZone(off) == [off |-> off, dst |-> FALSE, day |-> 0]
\* a zone whose clocks are set back by one tick during local day `day`: that
\* day is one tick longer and the offset is off - 1 afterwards
DstZone(off, day) == [off |-> off, dst |-> TRUE, day |-> day]

\* the instant of 00:00:00.000 local time on a day
LocalMidnight(day, zone) ==
    day * TicksPerDay - zone.off + (IF zone.dst /\ day > zone.day THEN 1 ELSE 0)

\* new Date(s + "T00:00:00"): local midnight of the day s names
toDateAtStart(s, zone) ==
    IF s.k = "iso" THEN DateAt(LocalMidnight(s.day, zone)) ELSE InvalidDate

\* setHours(23, 59, 59, 999): the last tick of that local day
toDateAtEnd(s, zone) ==
    IF s.k = "iso" THEN DateAt(LocalMidnight(s.day + 1, zone) - 1)
    ELSE InvalidDate

NaN == [nan |-> TRUE]
Number(n) == [nan |-> FALSE, n |-> n]

\* Math.floor(n / d) for d > 0
FloorDiv(n, d) == IF n >= 0 THEN n \div d ELSE -((-n + d - 1) \div d)

daysUntil(deadlineISO, clock, zone) ==
    LET e == toDateAtEnd(deadlineISO, zone)
    IN IF e.valid THEN Number(FloorDiv(e.t - clock, TicksPerDay)) ELSE NaN

\* { y: now.getFullYear(), m0: now.getMonth() }: the days of the model lie
\* in January 2025
monthOf(clock, zone) == [y |-> 2025, m0 |-> 0]

\* new Date().toISOString().slice(0, 10): the UTC calendar day of the clock
todayISO(clock) == Iso(FloorDiv(clock, TicksPerDay))

\* Math.round(x / y * 100) for 0 <= x <= y, y > 0 (halves round up)
\* the pairs <<done, n>>, n <= 100, for which the double (done / n) * 100 is
\* the one just below m + 1/2 although 100 * done / n is m + 1/2 exactly:
\* 23 / 40 is the double below 0.575, and (23 / 40) * 100 is 57.49999999999999
ProductBelowHalf == {<<23, 40>>, <<46, 80>>}

\* Math.round((x / y) * 100), for 0 <= x <= y, 0 < y <= 100
RoundPercent(x, y) ==
    IF <<x, y>> \in ProductBelowHalf THEN (100 * x) \div y
    ELSE (200 * x + y) \div (2 * y)

projectProgress(p) ==
    IF Len(p.tasks) = 0 THEN 0
    ELSE RoundPercent(
            Cardinality({i \in DOMAIN p.tasks : p.tasks[i].status = "done"}),
            Len(p.tasks))

RangeError == [ok |-> FALSE, error |-> "RangeError: Invalid time value"]
Ok(v) == [ok |-> TRUE, v |-> v]

\* d.setDate(d.getDate() - 30) moves to local midnight 30 calendar days
\* earlier; toISOString().slice(0, 10) is the UTC calendar day of that
\* instant and throws a RangeError on an invalid Date
defaultStartFromDeadline(deadlineISO, zone) ==
    LET d == toDateAtStart(deadlineISO, zone)
    IN IF d.valid
       THEN Ok(Iso(FloorDiv(LocalMidnight(deadlineISO.day - 30, zone), TicksPerDay)))
       ELSE RangeError

----------------------------------------------------------------------------
(* Runtime guards *)

\* x.map((v) => String(v)).filter(Boolean)
asStringArray(x) ==
    IF IsArray(x)
    THEN LET strs == [i \in 1..Len(x.items) |-> ToStr(x.items[i])]
             NonEmpty(v) == v # ""
         IN SelectSeq(strs, NonEmpty)
    ELSE <<>>

statusSet == {"todo", "ongoing", "done"}

isTask(obj) ==
    /\ IsObject(obj)
    /\ IsString(obj.o.title)
    /\ IsString(obj.o.status)
    /\ obj.o.status.s \in statusSet

\* typeof t.id === "string" && t.id
HasOwnId(t) == NonEmptyString(t.o.id)

\* how many elements of x get an id from generateId
asTaskArrayGenerated(x) ==
    IF IsArray(x)
    THEN LET kept == SelectSeq(x.items, isTask)
         IN Cardinality({i \in DOMAIN kept : ~HasOwnId(kept[i])})
    ELSE 0

\* a guard that gives every task a new id
asTaskArrayFreshIds(x, n) ==
    IF ~IsArray(x) THEN <<>>
    ELSE LET kept == SelectSeq(x.items, isTask)
         IN [i \in 1..Len(kept) |->
                [id |-> generateId(n + i),
                 title |-> kept[i].o.title.s,
                 status |-> kept[i].o.status.s,
                 area |-> IF IsString(kept[i].o.area) THEN kept[i].o.area
                          ELSE Missing]]

\* n ids were handed out before the call
asTaskArray(x, n) ==
    IF ~IsArray(x) THEN <<>>
    ELSE LET kept == SelectSeq(x.items, isTask)
             rank(i) == Cardinality({j \in 1..i : ~HasOwnId(kept[j])})
         IN [i \in 1..Len(kept) |->
                [id |-> IF HasOwnId(kept[i]) THEN kept[i].o.id.s
                        ELSE generateId(n + rank(i)),
                 title |-> kept[i].o.title.s,
                 status |-> kept[i].o.status.s,
                 area |-> IF IsString(kept[i].o.area) THEN kept[i].o.area
                          ELSE Missing]]

----------------------------------------------------------------------------
(* Firestore mappers *)

NoDoc == [t |-> "absent"]
NoProject == [id |-> "null"]
NoStart == [k |-> "undefined"]

\* d is a document snapshot [key, data]; the result is Ok(Project) or the
\* exception toISOString raised
mapDocToProject(d, clock, zone, n) ==
    LET data == d.data
        id == IF NonEmptyString(data.id) THEN data.id.s ELSE d.key
        name == IF IsString(data.name) THEN data.name.s ELSE ""
        description == IF IsString(data.description) THEN data.description.s ELSE ""
        functionalAreas == asStringArray(data.functionalAreas)
        deadline == IF NonEmptyDateString(data.deadline) THEN data.deadline.s
                    ELSE todayISO(clock)
        start == IF NonEmptyDateString(data.startDate) THEN Ok(data.startDate.s)
                 ELSE defaultStartFromDeadline(deadline, zone)
        tasks == asTaskArray(data.tasks, n)
        archived == Truthy(data.archived)
    IN IF ~start.ok THEN start
       ELSE Ok([id |-> id, name |-> name, description |-> description,
                functionalAreas |-> functionalAreas, startDate |-> start.v,
                deadline |-> deadline, tasks |-> tasks, archived |-> archived])

\* ids generateId handed out while mapping d
mapDocGenerated(d, clock, zone) ==
    IF mapDocToProject(d, clock, zone, 0).ok
    THEN asTaskArrayGenerated(d.data.tasks) ELSE 0

\* the data object { ...p, updatedAt } of setDoc (updatedAt is not read back)
ProjectData(p) ==
    [id |-> Str(p.id), name |-> Str(p.name), description |-> Str(p.description),
     functionalAreas |-> Arr([i \in 1..Len(p.functionalAreas) |->
                                 Str(p.functionalAreas[i])]),
     startDate |-> IF p.startDate = NoStart THEN Missing ELSE Str(p.startDate),
     deadline |-> Str(p.deadline),
     tasks |-> Arr([i \in 1..Len(p.tasks) |->
                      Obj([id |-> Str(p.tasks[i].id),
                           title |-> Str(p.tasks[i].title),
                           status |-> Str(p.tasks[i].status),
                           area |-> p.tasks[i].area])]),
     archived |-> Bool(p.archived)]

\* setDoc(ref, data, { merge: true }): fields of data replace the document's,
\* fields data leaves out are kept
MergeDoc(old, data) ==
    IF old = NoDoc THEN data
    ELSE [f \in DOMAIN data |-> IF data[f] = Missing THEN old[f] ELSE data[f]]

----------------------------------------------------------------------------
(* Mapper study: a stored document is mapped; a Project is saved, then mapped *)

Today == 100
TzOffsets == {-1, 0, 1}
Zones == {FixedZone(off) : off \in TzOffsets}

GoodTask == Obj([id |-> Str("t1"), title |-> Str("Design"), status |-> Str("done"),
                 area |-> Str("QA")])
TaskNoId == Obj([id |-> Missing, title |-> Str("Build"), status |-> Str("todo"),
                 area |-> Num])
TaskEmptyId == Obj([id |-> Str(""), title |-> Str(""), status |-> Str("ongoing"),
                    area |-> Missing])
TaskBadTitle == Obj([id |-> Str("t2"), title |-> Num, status |-> Str("todo"),
                     area |-> Missing])
TaskBadStatus == Obj([id |-> Str("t3"), title |-> Str("Ship"), status |-> Str("blocked"),
                      area |-> Missing])
TaskNoStatus == Obj([id |-> Str("t4"), title |-> Str("Ship"), status |-> Missing,
                     area |-> Missing])

StoredTaskElements ==
    {Null, Num, GoodTask, TaskNoId, TaskEmptyId, TaskBadTitle, TaskBadStatus,
     TaskNoStatus}

MaxStoredTasks == 2

SeqsUpTo(S, n) == UNION {[1..k -> S] : k \in 0..n}

StoredTaskValues ==
    {Missing, Null, Str("none")} \cup
    {Arr(xs) : xs \in SeqsUpTo(StoredTaskElements, MaxStoredTasks)}

StoredDateValues ==
    {Missing, Null, Num, Str(EmptyText), Str(JunkText), Str(Iso(Today + 5))}

BaseData ==
    [id |-> Str("a"), name |-> Str("Alpha"), description |-> Str("about"),
     functionalAreas |-> Arr(<<Str("Auth")>>), startDate |-> Str(Iso(Today - 20)),
     deadline |-> Str(Iso(Today + 5)), tasks |-> Arr(<<GoodTask>>),
     archived |-> Bool(FALSE)]

StoredData ==
    {[BaseData EXCEPT !.id = i, !.name = n, !.description = n, !.archived = a,
                      !.functionalAreas = fa] :
        i \in {Missing, Num, Str(""), Str("b")},
        n \in {Missing, Null, Str("")},
        a \in {Missing, Bool(TRUE), Str("yes"), Num, Null},
        fa \in {Missing, Str("Auth"), Arr(<<Str("Auth"), Str(""), Num, Null>>)}}
    \cup {[BaseData EXCEPT !.deadline = d, !.startDate = st] :
            d \in StoredDateValues, st \in StoredDateValues}
    \cup {[BaseData EXCEPT !.tasks = ts] : ts \in StoredTaskValues}
    \cup {[f \in DOMAIN BaseData |-> Missing]}

WellFormedTasks ==
    {[id |-> i, title |-> "Design", status |-> st, area |-> ar] :
        i \in {"t1", "t2"}, st \in statusSet, ar \in {Missing, Str("QA")}}

MaxTasks == 2

WellFormedProjects ==
    {[id |-> "a", name |-> "Alpha", description |-> "", functionalAreas |-> <<"Auth">>,
      startDate |-> st, deadline |-> Iso(Today + 5), tasks |-> ts, archived |-> ar] :
        st \in {NoStart, Iso(Today - 20), Iso(Today + 5)},
        ts \in SeqsUpTo(WellFormedTasks, MaxTasks),
        ar \in BOOLEAN}

NotMapped == [ok |-> FALSE, error |-> "not mapped yet"]

NoCall == [fn |-> "none"]
NoRet == [k |-> "none"]

\* a second session that has mounted and not loaded yet: its list, its loaded
\* flag, its remote calls in flight, how many events its user has raised and
\* the ids of the projects its user has edited or deleted
NoPeer == [projects |-> <<>>, loaded |-> FALSE, pending |-> {}, acts |-> 0,
           touched |-> {}]

\* mapDocToProject on a snapshot of the collection
MapStored ==
    /\ stored # NoDoc
    /\ mapped = NotMapped
    /\ mapped' = mapDocToProject(stored, now, tz, idSeq)
    /\ idSeq' = idSeq + mapDocGenerated(stored, now, tz)
    /\ UNCHANGED <<now, tz, acts, remote, pending, loadPc, projects,
                   loaded, q, showArchived, tab, open, editing, form,
                   faText, last, cursor, stored, orig, call, ret, peer>>

\* setDoc(doc(db, "projects", p.id), { ...p }, { merge: true }) into an empty
\* collection, and the snapshot getDocs then returns for it
SaveOrig ==
    /\ orig # NoProject
    /\ stored = NoDoc
    /\ stored' = [key |-> orig.id, data |-> MergeDoc(NoDoc, ProjectData(orig))]
    /\ UNCHANGED <<ctlVars, mapped, orig, call, ret, peer>>

----------------------------------------------------------------------------
(* Text: the characters of the strings the model uses, for search *)

Chars(s) ==
    CASE s = "" -> <<>>
      [] s = " " -> <<" ">>
      [] s = "Al" -> <<"A", "l">>
      [] s = "Bo" -> <<"B", "o">>
      [] s = "al" -> <<"a", "l">>
      [] s = "AL" -> <<"A", "L">>
      [] s = "zz" -> <<"z", "z">>
      [] s = "Untitled" -> <<"U", "n", "t", "i", "t", "l", "e", "d">>
      [] s = "QA" -> <<"Q", "A">>
      [] s = "UX" -> <<"U", "X">>
      [] s = "Fix" -> <<"F", "i", "x">>
      [] s = "Doc" -> <<"D", "o", "c">>
      [] OTHER -> <<"?">>

LowerChar(c) ==
    CASE c = "A" -> "a" [] c = "B" -> "b" [] c = "D" -> "d" [] c = "F" -> "f"
      [] c = "L" -> "l" [] c = "Q" -> "q" [] c = "U" -> "u" [] c = "X" -> "x"
      [] OTHER -> c

\* s.toLowerCase()
toLowerCase(cs) == [i \in 1..Len(cs) |-> LowerChar(cs[i])]

\* s.trim() is empty
IsBlank(cs) == \A i \in 1..Len(cs) : cs[i] = " "

\* parts.join(sep)
RECURSIVE Join(_, _)
Join(parts, sep) ==
    IF parts = <<>> THEN <<>>
    ELSE IF Len(parts) = 1 THEN parts[1]
    ELSE parts[1] \o sep \o Join(Tail(parts), sep)

\* hay.includes(needle)
Includes(hay, needle) ==
    \E i \in 0..(Len(hay) - Len(needle)) : SubSeq(hay, i + 1, i + Len(needle)) = needle

----------------------------------------------------------------------------
(* Derived views *)

Tabs == {"all", "ongoing", "week", "overdue"}

tabMatches(p, t, clock, zone) ==
    LET d == daysUntil(p.deadline, clock, zone)
    IN CASE t = "all" -> TRUE
         [] t = "ongoing" -> \E i \in DOMAIN p.tasks : p.tasks[i].status = "ongoing"
         [] t = "overdue" -> ~d.nan /\ d.n < 0
         [] t = "week" -> ~d.nan /\ d.n >= 0 /\ d.n <= 7
         [] OTHER -> TRUE

searchText(p) ==
    Join(<<Chars(p.name), Chars(p.description),
           Join([i \in 1..Len(p.functionalAreas) |-> Chars(p.functionalAreas[i])],
                <<",", " ">>),
           Join([i \in 1..Len(p.tasks) |-> Chars(p.tasks[i].title)], <<",", " ">>)>>,
         <<" ">>)

\* a filter whose search runs over the visible projects of every tab
filteredSearchEveryTab(ps, query, showArch, t, clock, zone) ==
    LET Visible(p) == showArch \/ ~p.archived
        OnTab(p) == tabMatches(p, t, clock, zone)
        Found(p) == Includes(toLowerCase(searchText(p)), toLowerCase(Chars(query)))
        byTab == SelectSeq(SelectSeq(ps, Visible), OnTab)
    IN IF IsBlank(Chars(query)) THEN byTab ELSE SelectSeq(SelectSeq(ps, Visible), Found)

filtered(ps, query, showArch, t, clock, zone) ==
    LET Visible(p) == showArch \/ ~p.archived
        OnTab(p) == tabMatches(p, t, clock, zone)
        Found(p) == Includes(toLowerCase(searchText(p)), toLowerCase(Chars(query)))
        byTab == SelectSeq(SelectSeq(ps, Visible), OnTab)
    IN IF IsBlank(Chars(query)) THEN byTab ELSE SelectSeq(byTab, Found)

\* projects.reduce((acc, p) => acc + p.tasks.filter(ongoing).length, 0)
RECURSIVE ongoingTasks(_)
ongoingTasks(ps) ==
    IF ps = <<>> THEN 0
    ELSE LET Ongoing(t) == t.status = "ongoing"
         IN ongoingTasks(SubSeq(ps, 1, Len(ps) - 1))
            + Len(SelectSeq(ps[Len(ps)].tasks, Ongoing))

\* counters that leave the archived projects out of every count
statsActiveOnly(ps, clock, zone) ==
    LET Active(p) == ~p.archived
        act == SelectSeq(ps, Active)
        Week(p) == tabMatches(p, "week", clock, zone)
        Overdue(p) == tabMatches(p, "overdue", clock, zone)
    IN [total |-> Len(act),
        ongoing |-> ongoingTasks(act),
        dueWeek |-> Len(SelectSeq(act, Week)),
        overdue |-> Len(SelectSeq(act, Overdue))]

\* the dashboard counters
stats(ps, clock, zone) ==
    LET Active(p) == ~p.archived
        d(p) == daysUntil(p.deadline, clock, zone)
        Week(p) == ~p.archived /\ ~d(p).nan /\ d(p).n >= 0 /\ d(p).n <= 7
        Overdue(p) == ~d(p).nan /\ d(p).n < 0 /\ ~p.archived
    IN [total |-> Len(SelectSeq(ps, Active)),
        ongoing |-> ongoingTasks(ps),
        dueWeek |-> Len(SelectSeq(ps, Week)),
        overdue |-> Len(SelectSeq(ps, Overdue))]

----------------------------------------------------------------------------
(* The remote collection and the synchronization layer *)

DocKeys == {"a", "b"}
ForeignId == "x"
GenIds == {generateId(n) : n \in 1..MaxGen}
AllKeys == DocKeys \cup {ForeignId} \cup GenIds
\* getDocs returns the documents in the order of their keys
KeyOrder == <<"a", "b">> \o SubSeq(GenNames, 1, MaxGen) \o <<ForeignId>>

TaskTodo == Obj([id |-> Str("t1"), title |-> Str("Fix"), status |-> Str("todo"),
                 area |-> Str("QA")])
TaskDone == Obj([id |-> Str("t2"), title |-> Str("Fix"), status |-> Str("done"),
                 area |-> Missing])
TaskUnkeyed == Obj([id |-> Missing, title |-> Str("Doc"), status |-> Str("ongoing"),
                    area |-> Missing])

\* a document as this program writes it: its id field is its key
OwnDoc(k) ==
    [id |-> Str(k), name |-> Str("Al"), description |-> Str(""),
     functionalAreas |-> Arr(<<Str("QA")>>), startDate |-> Str(Iso(Today - 20)),
     deadline |-> Str(Iso(Today + 5)), tasks |-> Arr(<<TaskTodo>>),
     archived |-> Bool(FALSE)]
\* a document of an older shape: no id, no start date, a task without id
LegacyDoc ==
    [id |-> Missing, name |-> Str("Bo"), description |-> Missing,
     functionalAreas |-> Missing, startDate |-> Missing,
     deadline |-> Str(Iso(Today - 3)), tasks |-> Arr(<<TaskUnkeyed, Null, TaskDone>>),
     archived |-> Str("yes")]
\* a document whose id field names another key
AliasDoc(i) == [OwnDoc(i) EXCEPT !.name = Str("Bo"), !.archived = Bool(TRUE)]
\* a deadline that is not a date, with and without a start date
OddDoc(k) == [OwnDoc(k) EXCEPT !.deadline = Str(JunkText)]
JunkDoc(k) == [OwnDoc(k) EXCEPT !.deadline = Str(JunkText), !.startDate = Missing]

Collection(da, db) ==
    [k \in AllKeys |-> IF k = "a" THEN da ELSE IF k = "b" THEN db ELSE NoDoc]

Collections ==
    {Collection(NoDoc, NoDoc),
     Collection(OwnDoc("a"), NoDoc),
     Collection(OwnDoc("a"), AliasDoc("a")),
     Collection(NoDoc, AliasDoc(ForeignId)),
     Collection(LegacyDoc, OddDoc("b")),
     Collection(OwnDoc("a"), JunkDoc("b"))}

Snapshot(coll) ==
    LET Present(k) == coll[k] # NoDoc
        keys == SelectSeq(KeyOrder, Present)
    IN [i \in 1..Len(keys) |-> [key |-> keys[i], data |-> coll[keys[i]]]]

\* snap.docs.map(mapDocToProject): Ok(<<rows, ids handed out>>), or the first
\* exception
RECURSIVE mapDocs(_, _, _, _)
mapDocs(docs, clock, zone, n) ==
    IF docs = <<>> THEN Ok([rows |-> <<>>, n |-> n])
    ELSE LET h == mapDocToProject(Head(docs), clock, zone, n)
         IN IF ~h.ok THEN h
            ELSE LET r == mapDocs(Tail(docs), clock, zone,
                                  n + asTaskArrayGenerated(Head(docs).data.tasks))
                 IN IF ~r.ok THEN r
                    ELSE Ok([rows |-> <<h.v>> \o r.v.rows, n |-> r.v.n])

loadProjectsCloud(coll, clock, zone, n) == mapDocs(Snapshot(coll), clock, zone, n)

\* the setDoc calls of saveProjectsCloud(ps), issued on behalf of handler cause
saveProjectsCloud(ps, cause) ==
    {[op |-> "setDoc", key |-> ps[i].id, data |-> ProjectData(ps[i]), cause |-> cause] :
        i \in DOMAIN ps}

\* a persist effect without its `if (!loaded) return`
persistEffectUnguarded(ps, isLoaded, cause) == saveProjectsCloud(ps, cause)

\* a persist effect that does not run for the list the load has set
persistEffectLoadSkipped(ps, isLoaded, cause) ==
    IF ~isLoaded \/ cause = "load" THEN {} ELSE saveProjectsCloud(ps, cause)

\* the persist effect: runs after every setProjects and after setLoaded
persistEffect(ps, isLoaded, cause) ==
    IF ~isLoaded THEN {} ELSE saveProjectsCloud(ps, cause)

Room(calls) == Cardinality(pending \cup calls) <= MaxPending

----------------------------------------------------------------------------
(* ProjectDashboard: state *)

EmptyForm ==
    [name |-> "", description |-> "", functionalAreas |-> <<>>,
     startDate |-> EmptyText, deadline |-> EmptyText, tasks |-> <<>>,
     archived |-> FALSE]

\* the segments of "" split at commas
EmptyFaText == <<"">>

\* " " + s, the shape of the second and later segments of areas.join(", ")
Pad(s) == CASE s = "QA" -> " QA" [] s = "UX" -> " UX" [] OTHER -> s
\* s.trim()
trim(s) == CASE s = " QA" -> "QA" [] s = " UX" -> "UX" [] s = " " -> "" [] OTHER -> s

\* the segments of areas.join(", ") split at commas
joinAreas(areas) ==
    IF areas = <<>> THEN EmptyFaText
    ELSE [i \in 1..Len(areas) |-> IF i = 1 THEN areas[i] ELSE Pad(areas[i])]

\* one more event from the user
User == acts < MaxActs /\ acts' = acts + 1

Did(op, id, tid, arg) == [op |-> op, id |-> id, tid |-> tid, arg |-> arg]

InitCtl ==
    /\ now = Today * TicksPerDay
    /\ tz = FixedZone(0)
    /\ idSeq = 0
    /\ acts = 0
    /\ remote \in Collections
    /\ pending = {}
    /\ loadPc = "fetching"
    /\ projects = <<>>
    /\ loaded = FALSE
    /\ q = ""
    /\ showArchived = FALSE
    /\ tab = "all"
    /\ cursor = monthOf(now, tz)
    /\ open = FALSE
    /\ editing = NoProject
    /\ form = EmptyForm
    /\ faText = EmptyFaText
    /\ last = Did("mount", "-", "-", "-")

Init ==
    /\ InitCtl
    /\ stored = NoDoc
    /\ mapped = NotMapped
    /\ orig = NoProject
    /\ call = NoCall
    /\ ret = NoRet
    /\ peer = NoPeer

----------------------------------------------------------------------------
(* ProjectDashboard: the load-once effect and the remote calls *)

\* a load that keeps what the list held: setProjects((prev) => [...rows, ...prev])
setProjectsRowsAppended(prev, rows) == rows \o prev

\* setProjects(rows): the list becomes the rows, whatever it held
setProjectsRows(prev, rows) == rows

\* const rows = await loadProjectsCloud(); setProjects(rows); setLoaded(true);
\* the persist effect then runs with loaded = true
LoadDone ==
    /\ loadPc = "fetching"
    /\ LET r == loadProjectsCloud(remote, now, tz, idSeq)
           after == setProjectsRows(projects, r.v.rows)
       IN /\ r.ok
          /\ r.v.n <= MaxGen
          /\ Room(persistEffect(after, TRUE, "load"))
          /\ projects' = after
          /\ idSeq' = r.v.n
          /\ loaded' = TRUE
          /\ pending' = pending \cup persistEffect(after, TRUE, "load")
    /\ loadPc' = "done"
    /\ last' = Did("load", "-", "-", "done")
    /\ UNCHANGED <<now, tz, acts, remote, q, showArchived, tab, open, editing,
                   form, faText, cursor,
                   studyVars>>

\* mapDocToProject throws inside loadProjectsCloud: the async function of the
\* effect rejects before setProjects and setLoaded, and nothing catches it
LoadRaised ==
    /\ loadPc = "fetching"
    /\ ~loadProjectsCloud(remote, now, tz, idSeq).ok
    /\ loadPc' = "failed"
    /\ last' = Did("load", "-", "-", "raised")
    /\ UNCHANGED <<now, tz, acts, idSeq, remote, pending, projects, loaded, q,
                   showArchived, tab, open, editing, form, faText, cursor,
                   studyVars>>

\* getDocs rejects: the same path
LoadRejected ==
    /\ loadPc = "fetching"
    /\ loadPc' = "failed"
    /\ last' = Did("load", "-", "-", "rejected")
    /\ UNCHANGED <<now, tz, acts, idSeq, remote, pending, projects, loaded, q,
                   showArchived, tab, open, editing, form, faText, cursor,
                   studyVars>>

\* a setDoc of saveProjectsCloud resolves
SetDocDone(c) ==
    /\ c \in pending /\ c.op = "setDoc"
    /\ remote' = [remote EXCEPT ![c.key] = MergeDoc(@, c.data)]
    /\ pending' = pending \ {c}
    /\ UNCHANGED <<now, tz, acts, last, idSeq, loadPc, projects, loaded, q,
                   showArchived, tab, open, editing, form, faText, cursor,
                   studyVars>>

\* a setDoc rejects: Promise.all rejects, and `void saveProjectsCloud(...)`
\* has no handler
SetDocFailed(c) ==
    /\ c \in pending /\ c.op = "setDoc"
    /\ pending' = pending \ {c}
    /\ UNCHANGED <<now, tz, acts, last, idSeq, remote, loadPc, projects, loaded, q,
                   showArchived, tab, open, editing, form, faText, cursor,
                   studyVars>>

\* the deleteDoc of removeProject resolves
DeleteDocDone(c) ==
    /\ c \in pending /\ c.op = "deleteDoc"
    /\ remote' = [remote EXCEPT ![c.key] = NoDoc]
    /\ pending' = pending \ {c}
    /\ UNCHANGED <<now, tz, acts, last, idSeq, loadPc, projects, loaded, q,
                   showArchived, tab, open, editing, form, faText, cursor,
                   studyVars>>

\* the deleteDoc rejects: try { await deleteDoc(...) } catch {}
DeleteDocFailed(c) ==
    /\ c \in pending /\ c.op = "deleteDoc"
    /\ pending' = pending \ {c}
    /\ UNCHANGED <<now, tz, acts, last, idSeq, remote, loadPc, projects, loaded, q,
                   showArchived, tab, open, editing, form, faText, cursor,
                   studyVars>>

----------------------------------------------------------------------------
(* ProjectDashboard: handlers *)

\* the cards on screen: filtered.map((p) => ...)
displayed == filtered(projects, q, showArchived, tab, now, tz)

openCreate ==
    /\ form' = EmptyForm
    /\ faText' = EmptyFaText
    /\ editing' = NoProject
    /\ open' = TRUE
    /\ last' = Did("openCreate", "-", "-", "-")
    /\ User
    /\ UNCHANGED <<now, tz, idSeq, remote, pending, loadPc, projects,
                   loaded, q, showArchived, tab, cursor,
                   studyVars>>

openEdit(p) ==
    /\ editing' = p
    /\ form' = [name |-> p.name, description |-> p.description,
                functionalAreas |-> p.functionalAreas,
                startDate |-> IF p.startDate = NoStart THEN EmptyText ELSE p.startDate,
                deadline |-> p.deadline, tasks |-> p.tasks, archived |-> p.archived]
    /\ faText' = joinAreas(p.functionalAreas)
    /\ open' = TRUE
    /\ last' = Did("openEdit", p.id, "-", "-")
    /\ User
    /\ UNCHANGED <<now, tz, idSeq, remote, pending, loadPc, projects,
                   loaded, q, showArchived, tab, cursor,
                   studyVars>>

\* the dialog's cancel button: setOpen(false)
cancelDialog ==
    /\ open
    /\ open' = FALSE
    /\ last' = Did("cancel", "-", "-", "-")
    /\ User
    /\ UNCHANGED <<now, tz, idSeq, remote, pending, loadPc, projects,
                   loaded, q, showArchived, tab, editing, form, faText, cursor,
                   studyVars>>

\* setForm({ ...form, [field]: value }) from the dialog's inputs
setFormField(field, value) ==
    /\ open
    /\ form[field] # value
    /\ form' = [form EXCEPT ![field] = value]
    /\ last' = Did("setForm", field, "-", "-")
    /\ User
    /\ UNCHANGED <<now, tz, idSeq, remote, pending, loadPc, projects,
                   loaded, q, showArchived, tab, open, editing, faText, cursor,
                   studyVars>>

\* tasks: [...f.tasks, { id: generateId(), title: "", status: "todo", area: "" }]
addTaskRow ==
    /\ open
    /\ idSeq < MaxGen
    /\ Len(form.tasks) < MaxTasks
    /\ form' = [form EXCEPT !.tasks =
                   Append(@, [id |-> generateId(idSeq + 1), title |-> "",
                              status |-> "todo", area |-> Str("")])]
    /\ idSeq' = idSeq + 1
    /\ last' = Did("addTaskRow", "-", "-", "-")
    /\ User
    /\ UNCHANGED <<now, tz, remote, pending, loadPc, projects,
                   loaded, q, showArchived, tab, open, editing, faText, cursor,
                   studyVars>>

\* tasks[idx] = { ...tasks[idx], ...patch } on a copy of f.tasks; patch holds
\* one field
patched(tasks, idx, patch) ==
    [tasks EXCEPT ![idx] = [@ EXCEPT ![patch.field] = patch.value]]

\* an updateTask that writes into f.tasks itself, the array the draft shares
\* with the project being edited
updateTaskInPlace(idx, patch) ==
    /\ open
    /\ idx \in DOMAIN form.tasks
    /\ form.tasks[idx][patch.field] # patch.value
    /\ form' = [form EXCEPT !.tasks = patched(@, idx, patch)]
    /\ projects' = [i \in DOMAIN projects |->
                      IF editing # NoProject /\ projects[i].id = editing.id
                         /\ projects[i].tasks = form.tasks
                      THEN [projects[i] EXCEPT !.tasks = patched(@, idx, patch)]
                      ELSE projects[i]]
    /\ last' = Did("updateTask", "-", "-", patch.field)
    /\ User
    /\ UNCHANGED <<now, tz, idSeq, remote, pending, loadPc,
                   loaded, q, showArchived, tab, open, editing, faText, cursor,
                   studyVars>>

updateTask(idx, patch) ==
    /\ open
    /\ idx \in DOMAIN form.tasks
    /\ form.tasks[idx][patch.field] # patch.value
    /\ form' = [form EXCEPT !.tasks = patched(@, idx, patch)]
    /\ last' = Did("updateTask", "-", "-", patch.field)
    /\ User
    /\ UNCHANGED <<now, tz, idSeq, remote, pending, loadPc, projects,
                   loaded, q, showArchived, tab, open, editing, faText, cursor,
                   studyVars>>

\* tasks.splice(idx, 1) on a copy of f.tasks
removeTaskRow(idx) ==
    /\ open
    /\ idx \in DOMAIN form.tasks
    /\ form' = [form EXCEPT !.tasks =
                   SubSeq(@, 1, idx - 1) \o SubSeq(@, idx + 1, Len(@))]
    /\ last' = Did("removeTaskRow", "-", "-", "-")
    /\ User
    /\ UNCHANGED <<now, tz, idSeq, remote, pending, loadPc, projects,
                   loaded, q, showArchived, tab, open, editing, faText, cursor,
                   studyVars>>

\* the "functional areas" input: setFaText(e.target.value)
setFaText(text) ==
    /\ open
    /\ faText # text
    /\ faText' = text
    /\ last' = Did("setFaText", "-", "-", "-")
    /\ User
    /\ UNCHANGED <<now, tz, idSeq, remote, pending, loadPc, projects,
                   loaded, q, showArchived, tab, open, editing, form, cursor,
                   studyVars>>

\* its onBlur: functionalAreas: faText.split(",").map(trim).filter(Boolean)
blurFaText ==
    /\ open
    /\ form' = [form EXCEPT !.functionalAreas =
                   LET NonEmpty(x) == x # ""
                   IN SelectSeq([i \in 1..Len(faText) |-> trim(faText[i])], NonEmpty)]
    /\ last' = Did("blurFaText", "-", "-", "-")
    /\ User
    /\ UNCHANGED <<now, tz, idSeq, remote, pending, loadPc, projects,
                   loaded, q, showArchived, tab, open, editing, faText, cursor,
                   studyVars>>

\* CalendarCard, Prev: c.m0 - 1 < 0 ? { y: c.y - 1, m0: 11 } : { y: c.y, m0: c.m0 - 1 }
prevMonth ==
    /\ cursor' = IF cursor.m0 - 1 < 0 THEN [y |-> cursor.y - 1, m0 |-> 11]
                 ELSE [y |-> cursor.y, m0 |-> cursor.m0 - 1]
    /\ last' = Did("prevMonth", "-", "-", "-")
    /\ User
    /\ UNCHANGED <<now, tz, idSeq, remote, pending, loadPc, projects,
                   loaded, q, showArchived, tab, open, editing, form, faText,
                   studyVars>>

\* CalendarCard, Next: c.m0 + 1 > 11 ? { y: c.y + 1, m0: 0 } : { y: c.y, m0: c.m0 + 1 }
nextMonth ==
    /\ cursor' = IF cursor.m0 + 1 > 11 THEN [y |-> cursor.y + 1, m0 |-> 0]
                 ELSE [y |-> cursor.y, m0 |-> cursor.m0 + 1]
    /\ last' = Did("nextMonth", "-", "-", "-")
    /\ User
    /\ UNCHANGED <<now, tz, idSeq, remote, pending, loadPc, projects,
                   loaded, q, showArchived, tab, open, editing, form, faText,
                   studyVars>>

setShowArchived(b) ==
    /\ showArchived # b
    /\ showArchived' = b
    /\ last' = Did("setShowArchived", "-", "-", "-")
    /\ User
    /\ UNCHANGED <<now, tz, idSeq, remote, pending, loadPc, projects,
                   loaded, q, tab, open, editing, form, faText, cursor,
                   studyVars>>

setTab(t) ==
    /\ tab # t
    /\ tab' = t
    /\ last' = Did("setTab", "-", "-", t)
    /\ User
    /\ UNCHANGED <<now, tz, idSeq, remote, pending, loadPc, projects,
                   loaded, q, showArchived, open, editing, form, faText, cursor,
                   studyVars>>

\* the search box: setQ(e.target.value)
setQ(text) ==
    /\ q # text
    /\ q' = text
    /\ last' = Did("setQ", "-", "-", text)
    /\ User
    /\ UNCHANGED <<now, tz, idSeq, remote, pending, loadPc, projects,
                   loaded, tab, showArchived, open, editing, form, faText, cursor,
                   studyVars>>

\* a filter with the test inverted: prev.filter((p) => p.id === id)
removeProjectUpdaterInverted(prev, id) ==
    LET Same(p) == p.id = id IN SelectSeq(prev, Same)

\* prev.filter((p) => p.id !== id)
removeProjectUpdater(prev, id) ==
    LET Other(p) == p.id # id IN SelectSeq(prev, Other)

\* the confirm() box is answered yes or no
removeProject(id, confirmed) ==
    LET after == removeProjectUpdater(projects, id)
        calls == {[op |-> "deleteDoc", key |-> id, cause |-> "removeProject"]}
                 \cup persistEffect(after, loaded, "removeProject")
    IN /\ IF confirmed
          THEN /\ Room(calls)
               /\ projects' = after
               /\ pending' = pending \cup calls
          ELSE UNCHANGED <<projects, pending>>
       /\ last' = Did("removeProject", id, "-", IF confirmed THEN "yes" ELSE "no")
       /\ User
       /\ UNCHANGED <<now, tz, idSeq, remote, loadPc, loaded, q,
                      showArchived, tab, open, editing, form, faText, cursor,
                   studyVars>>

\* prev.map((x) => (x.id === p.id ? { ...x, archived: !x.archived } : x))
toggleArchiveUpdater(prev, id) ==
    [i \in 1..Len(prev) |->
        IF prev[i].id = id THEN [prev[i] EXCEPT !.archived = ~@] ELSE prev[i]]

toggleArchive(p) ==
    LET after == toggleArchiveUpdater(projects, p.id)
        calls == persistEffect(after, loaded, "toggleArchive")
    IN /\ Room(calls)
       /\ projects' = after
       /\ pending' = pending \cup calls
       /\ last' = Did("toggleArchive", p.id, "-", "-")
       /\ User
       /\ UNCHANGED <<now, tz, idSeq, remote, loadPc, loaded, q,
                      showArchived, tab, open, editing, form, faText, cursor,
                   studyVars>>

\* an updater that does not look at the task id
setProjectTaskStatusUpdaterEveryTask(prev, projectId, taskId, status) ==
    [i \in 1..Len(prev) |->
        IF prev[i].id = projectId
        THEN [prev[i] EXCEPT !.tasks =
                [j \in 1..Len(@) |-> [@[j] EXCEPT !.status = status]]]
        ELSE prev[i]]

\* prev.map((p) => p.id === projectId
\*   ? { ...p, tasks: p.tasks.map((t) => (t.id === taskId ? { ...t, status } : t)) } : p)
setProjectTaskStatusUpdater(prev, projectId, taskId, status) ==
    [i \in 1..Len(prev) |->
        IF prev[i].id = projectId
        THEN [prev[i] EXCEPT !.tasks =
                [j \in 1..Len(@) |->
                    IF @[j].id = taskId THEN [@[j] EXCEPT !.status = status] ELSE @[j]]]
        ELSE prev[i]]

setProjectTaskStatus(projectId, taskId, status) ==
    LET after == setProjectTaskStatusUpdater(projects, projectId, taskId, status)
        calls == persistEffect(after, loaded, "setProjectTaskStatus")
    IN /\ Room(calls)
       /\ projects' = after
       /\ pending' = pending \cup calls
       /\ last' = Did("setProjectTaskStatus", projectId, taskId, status)
       /\ User
       /\ UNCHANGED <<now, tz, idSeq, remote, loadPc, loaded, q,
                      showArchived, tab, open, editing, form, faText, cursor,
                   studyVars>>

\* faText.split(",").map((s) => s.trim()).filter(Boolean)
normalizedAreas(text) ==
    LET NonEmpty(x) == x # ""
    IN SelectSeq([i \in 1..Len(text) |-> trim(text[i])], NonEmpty)

\* the payload of upsertProject, Ok([payload, n]) with n the ids handed out
\* so far, or the exception defaultStartFromDeadline raised
upsertPayload(f, text, ed, clock, zone, n) ==
    LET deadline == IF f.deadline # EmptyText THEN f.deadline ELSE todayISO(clock)
        start == IF f.startDate # EmptyText THEN Ok(f.startDate)
                 ELSE defaultStartFromDeadline(deadline, zone)
        n1 == IF ed = NoProject THEN n + 1 ELSE n
        rank(i) == Cardinality({j \in 1..i : f.tasks[j].id = ""})
    IN IF ~start.ok THEN start
       ELSE Ok([payload |->
                   [id |-> IF ed = NoProject THEN generateId(n + 1) ELSE ed.id,
                    name |-> IF f.name # "" THEN f.name ELSE "Untitled",
                    description |-> f.description,
                    functionalAreas |-> normalizedAreas(text),
                    startDate |-> start.v,
                    deadline |-> deadline,
                    tasks |-> [i \in 1..Len(f.tasks) |->
                                 [id |-> IF f.tasks[i].id # "" THEN f.tasks[i].id
                                         ELSE generateId(n1 + rank(i)),
                                  title |-> f.tasks[i].title,
                                  status |-> f.tasks[i].status,
                                  area |-> f.tasks[i].area]],
                    archived |-> f.archived],
                n |-> n1 + Cardinality({j \in 1..Len(f.tasks) : f.tasks[j].id = ""})])

\* exists ? prev.map((p) => (p.id === payload.id ? payload : p)) : [payload, ...prev]
upsertProjectUpdater(prev, payload) ==
    IF \E i \in 1..Len(prev) : prev[i].id = payload.id
    THEN [i \in 1..Len(prev) |-> IF prev[i].id = payload.id THEN payload ELSE prev[i]]
    ELSE <<payload>> \o prev

upsertProject ==
    /\ open
    /\ LET r == upsertPayload(form, faText, editing, now, tz, idSeq)
       IN IF ~r.ok
          THEN \* the handler throws before any setState
               /\ last' = Did("upsertProject", "-", "-", "raised")
               /\ UNCHANGED <<idSeq, projects, pending, open, editing, form, faText>>
          ELSE LET after == upsertProjectUpdater(projects, r.v.payload)
                   calls == persistEffect(after, loaded, "upsertProject")
               IN /\ r.v.n <= MaxGen
                  /\ Len(after) <= MaxProjects
                  /\ Room(calls)
                  /\ projects' = after
                  /\ pending' = pending \cup calls
                  /\ idSeq' = r.v.n
                  /\ open' = FALSE
                  /\ editing' = NoProject
                  /\ form' = EmptyForm
                  /\ faText' = EmptyFaText
                  /\ last' = Did("upsertProject", r.v.payload.id, "-", "ok")
    /\ User
    /\ UNCHANGED <<now, tz, remote, loadPc, loaded, q, showArchived, tab, cursor,
                   studyVars>>

----------------------------------------------------------------------------
(* A second session: the same page in another browser, on the same collection *)

MaxPeerActs == 2

PeerUser == peer.acts < MaxPeerActs

\* the load-once effect of the second session, and its persist effect
PeerLoadDone ==
    /\ ~peer.loaded
    /\ LET r == loadProjectsCloud(remote, now, tz, 0)
           after == setProjectsRows(peer.projects, r.v.rows)
       IN /\ r.ok
          /\ r.v.n = 0
          /\ peer' = [peer EXCEPT !.projects = after,
                                  !.loaded = TRUE,
                                  !.pending = @ \cup persistEffect(after, TRUE, "load")]
    /\ UNCHANGED <<ctlVars, stored, mapped, orig, call, ret>>

\* toggleArchive(p) in the second session
PeerToggleArchive(p) ==
    LET after == toggleArchiveUpdater(peer.projects, p.id)
    IN /\ PeerUser
       /\ peer' = [peer EXCEPT !.projects = after,
                               !.pending = @ \cup persistEffect(after, peer.loaded,
                                                                "toggleArchive"),
                               !.acts = @ + 1,
                               !.touched = @ \cup {p.id}]
       /\ UNCHANGED <<ctlVars, stored, mapped, orig, call, ret>>

\* removeProject(id) in the second session, confirmed
PeerRemoveProject(id) ==
    LET after == removeProjectUpdater(peer.projects, id)
        calls == {[op |-> "deleteDoc", key |-> id, cause |-> "removeProject"]}
                 \cup persistEffect(after, peer.loaded, "removeProject")
    IN /\ PeerUser
       /\ peer' = [peer EXCEPT !.projects = after,
                               !.pending = @ \cup calls,
                               !.acts = @ + 1,
                               !.touched = @ \cup {id}]
       /\ UNCHANGED <<ctlVars, stored, mapped, orig, call, ret>>

\* a setDoc of the second session resolves
PeerSetDocDone(c) ==
    /\ c \in peer.pending /\ c.op = "setDoc"
    /\ remote' = [remote EXCEPT ![c.key] = MergeDoc(@, c.data)]
    /\ peer' = [peer EXCEPT !.pending = @ \ {c}]
    /\ UNCHANGED <<now, tz, acts, last, idSeq, pending, loadPc, projects, loaded, q,
                   showArchived, tab, open, editing, form, faText, cursor,
                   stored, mapped, orig, call, ret>>

\* the deleteDoc of the second session resolves
PeerDeleteDocDone(c) ==
    /\ c \in peer.pending /\ c.op = "deleteDoc"
    /\ remote' = [remote EXCEPT ![c.key] = NoDoc]
    /\ peer' = [peer EXCEPT !.pending = @ \ {c}]
    /\ UNCHANGED <<now, tz, acts, last, idSeq, pending, loadPc, projects, loaded, q,
                   showArchived, tab, open, editing, form, faText, cursor,
                   stored, mapped, orig, call, ret>>

----------------------------------------------------------------------------
(* Specifications *)

NameInputs == {"Bo"}
DeadlineInputs == {Iso(Today - 3)}
StartInputs == {EmptyText}
SearchTexts == {"", " ", "al", "Doc"}

Next ==
    \/ LoadDone
    \/ LoadRaised
    \/ LoadRejected
    \/ \E c \in pending : SetDocDone(c)
    \/ \E c \in pending : SetDocFailed(c)
    \/ \E c \in pending : DeleteDocDone(c)
    \/ \E c \in pending : DeleteDocFailed(c)
    \/ openCreate
    \/ \E i \in DOMAIN displayed : openEdit(displayed[i])
    \/ cancelDialog
    \/ \E v \in NameInputs : setFormField("name", v)
    \/ \E v \in DeadlineInputs : setFormField("deadline", v)
    \/ \E v \in StartInputs : setFormField("startDate", v)
    \/ addTaskRow
    \/ \E i \in DOMAIN displayed, yes \in BOOLEAN : removeProject(displayed[i].id, yes)
    \/ \E i \in DOMAIN displayed : toggleArchive(displayed[i])
    \/ \E i \in DOMAIN displayed :
         \E j \in DOMAIN displayed[i].tasks, st \in statusSet :
            /\ st # displayed[i].tasks[j].status
            /\ setProjectTaskStatus(displayed[i].id, displayed[i].tasks[j].id, st)
    \/ upsertProject

Spec == Init /\ [][Next]_vars

\* the list under the filters: the load, the view state and the handlers of
\* the cards
NextView ==
    \/ LoadDone
    \/ \E c \in pending : SetDocDone(c)
    \/ \E b \in BOOLEAN : setShowArchived(b)
    \/ \E t \in Tabs : setTab(t)
    \/ \E text \in SearchTexts : setQ(text)
    \/ \E i \in DOMAIN displayed : toggleArchive(displayed[i])
    \/ \E i \in DOMAIN displayed :
         \E j \in DOMAIN displayed[i].tasks, st \in statusSet :
            /\ st # displayed[i].tasks[j].status
            /\ setProjectTaskStatus(displayed[i].id, displayed[i].tasks[j].id, st)

SpecView == Init /\ [][NextView]_vars

\* the dialog and the view: the load, the view state, the draft and upsert
TaskPatches ==
    {[field |-> "title", value |-> "Doc"], [field |-> "status", value |-> "done"],
     [field |-> "area", value |-> Str("UX")]}
FaTexts == {<<"QA", " UX">>}

InitDraft ==
    /\ Init
    /\ remote \in {Collection(NoDoc, NoDoc), Collection(LegacyDoc, OddDoc("b"))}

NextDraft ==
    \/ LoadDone
    \/ \E c \in pending : SetDocDone(c)
    \/ \E text \in {"al"} : setQ(text)
    \/ \E t \in {"ongoing"} : setTab(t)
    \/ \E b \in BOOLEAN : setShowArchived(b)
    \/ prevMonth
    \/ nextMonth
    \/ openCreate
    \/ \E i \in DOMAIN displayed : openEdit(displayed[i])
    \/ cancelDialog
    \/ \E v \in NameInputs : setFormField("name", v)
    \/ \E text \in FaTexts : setFaText(text)
    \/ blurFaText
    \/ addTaskRow
    \/ \E idx \in 1..MaxTasks, patch \in TaskPatches : updateTask(idx, patch)
    \/ \E idx \in 1..MaxTasks : removeTaskRow(idx)
    \/ upsertProject

SpecDraft == InitDraft /\ [][NextDraft]_vars

\* one session in which every remote call succeeds, on collections this
\* program wrote itself
InitSync ==
    /\ Init
    /\ remote \in {Collection(NoDoc, NoDoc), Collection(OwnDoc("a"), NoDoc)}

NextSync ==
    \/ LoadDone
    \/ \E c \in pending : SetDocDone(c)
    \/ \E c \in pending : DeleteDocDone(c)
    \/ openCreate
    \/ \E i \in DOMAIN displayed : openEdit(displayed[i])
    \/ \E v \in NameInputs : setFormField("name", v)
    \/ upsertProject
    \/ \E i \in DOMAIN displayed : removeProject(displayed[i].id, TRUE)
    \/ \E i \in DOMAIN displayed : toggleArchive(displayed[i])
    \/ \E i \in DOMAIN displayed :
         \E j \in DOMAIN displayed[i].tasks, st \in statusSet :
            /\ st # displayed[i].tasks[j].status
            /\ setProjectTaskStatus(displayed[i].id, displayed[i].tasks[j].id, st)

SpecSync == InitSync /\ [][NextSync]_vars

\* two sessions on a collection this program wrote, every remote call succeeds
InitPeers ==
    /\ Init
    /\ remote = Collection(OwnDoc("a"), NoDoc)

NextPeers ==
    \/ LoadDone
    \/ \E c \in pending : SetDocDone(c)
    \/ openCreate
    \/ \E v \in NameInputs : setFormField("name", v)
    \/ upsertProject
    \/ \E i \in DOMAIN displayed : toggleArchive(displayed[i])
    \/ PeerLoadDone
    \/ \E i \in DOMAIN peer.projects : PeerToggleArchive(peer.projects[i])
    \/ \E i \in DOMAIN peer.projects : PeerRemoveProject(peer.projects[i].id)
    \/ \E c \in peer.pending : PeerSetDocDone(c)
    \/ \E c \in peer.pending : PeerDeleteDocDone(c)

SpecPeers == InitPeers /\ [][NextPeers]_vars

InitMapper ==
    /\ now = Today * TicksPerDay
    /\ tz \in Zones
    /\ idSeq = 0
    /\ acts = 0
    /\ remote = [k \in AllKeys |-> NoDoc]
    /\ pending = {}
    /\ loadPc = "fetching"
    /\ projects = <<>>
    /\ loaded = FALSE
    /\ q = ""
    /\ showArchived = FALSE
    /\ tab = "all"
    /\ cursor = monthOf(now, tz)
    /\ open = FALSE
    /\ editing = NoProject
    /\ form = EmptyForm
    /\ faText = EmptyFaText
    /\ last = Did("mount", "-", "-", "-")
    /\ mapped = NotMapped
    /\ call = NoCall
    /\ ret = NoRet
    /\ peer = NoPeer
    /\ \/ /\ stored \in {[key |-> "k1", data |-> d] : d \in StoredData}
          /\ orig = NoProject
       \/ /\ stored = NoDoc
          /\ orig \in WellFormedProjects

NextMapper == MapStored \/ SaveOrig

SpecMapper == InitMapper /\ [][NextMapper]_vars

----------------------------------------------------------------------------
(* Helper study: a helper is called on an argument drawn from a bounded set *)

MaxTaskCount == 40

Returned(v) == [k |-> "value", v |-> v]

\* a Project with n tasks, the first k of them done and the others in status
\* other
ProjectOf(n, k, other) ==
    [id |-> "a", name |-> "Al", description |-> "", functionalAreas |-> <<>>,
     startDate |-> Iso(Today - 20), deadline |-> Iso(Today + 5),
     tasks |-> [i \in 1..n |->
                  [id |-> ToString(i), title |-> "Fix",
                   status |-> IF i <= k THEN "done" ELSE other,
                   area |-> Missing]],
     archived |-> FALSE]

ProgressCalls ==
    {[fn |-> "projectProgress", p |-> ProjectOf(n, k, other)] :
        n \in 0..MaxTaskCount, k \in 0..MaxTaskCount, other \in {"todo", "ongoing"}}

\* how many days around Today the dates and the clock of the study span
DaySpan == 2

\* zones whose clocks are set back during Today or the day before
DstZones == {DstZone(off, day) : off \in TzOffsets, day \in {Today - 1, Today}}

DaysUntilCalls ==
    {[fn |-> "daysUntil", d |-> Iso(day)] : day \in (Today - DaySpan)..(Today + DaySpan)}

ClockValues == ((Today - DaySpan) * TicksPerDay)..((Today + DaySpan + 1) * TicksPerDay)

CallDaysUntil ==
    /\ call.fn = "daysUntil"
    /\ ret = NoRet
    /\ ret' = Returned(daysUntil(call.d, now, tz))
    /\ UNCHANGED <<ctlVars, stored, mapped, orig, call, peer>>

CallProjectProgress ==
    /\ call.fn = "projectProgress"
    /\ ret = NoRet
    /\ ret' = Returned(projectProgress(call.p))
    /\ UNCHANGED <<ctlVars, stored, mapped, orig, call, peer>>

InitHelpers ==
    /\ \/ /\ call \in ProgressCalls
          /\ now = Today * TicksPerDay
          /\ tz = FixedZone(0)
       \/ /\ call \in DaysUntilCalls
          /\ now \in ClockValues
          /\ tz \in Zones \cup DstZones
    /\ idSeq = 0
    /\ acts = 0
    /\ remote = [k \in AllKeys |-> NoDoc]
    /\ pending = {}
    /\ loadPc = "fetching"
    /\ projects = <<>>
    /\ loaded = FALSE
    /\ q = ""
    /\ showArchived = FALSE
    /\ tab = "all"
    /\ cursor = monthOf(now, tz)
    /\ open = FALSE
    /\ editing = NoProject
    /\ form = EmptyForm
    /\ faText = EmptyFaText
    /\ last = Did("mount", "-", "-", "-")
    /\ stored = NoDoc
    /\ mapped = NotMapped
    /\ orig = NoProject
    /\ ret = NoRet
    /\ peer = NoPeer

NextHelpers ==
    \/ CallProjectProgress
    \/ CallDaysUntil

SpecHelpers == InitHelpers /\ [][NextHelpers]_vars

----------------------------------------------------------------------------
(* Properties *)

\* a step taken by handler op
UserStep(op) == acts' # acts /\ last'.op = op

\* a step of the remote store or of the load, not of the user
RemoteStep == acts' = acts

IdsOf(ps) == {ps[i].id : i \in DOMAIN ps}

TaskIds == {"t1", "t2"} \cup GenIds

\* C1: the controller is loading until the initial load completes and is
\* ready from then on, whether the load succeeded or failed.
C1_ReadyOnceLoadCompleted == loaded <=> (loadPc # "fetching")

\* C2: while the controller is loading no setDoc is issued, whatever
\* handlers change the local list.
C2_NoWriteWhileLoading ==
    ~loaded => \A c \in pending : c.op # "setDoc"

\* the list was created and changed by handlers before the load completed
C2_ChangedWhileLoading ==
    /\ ~loaded
    /\ loadPc = "fetching"
    /\ last.op = "toggleArchive"
    /\ \E i \in DOMAIN projects : projects[i].id = last.id /\ projects[i].archived

\* C3: upsert replaces the entry whose id is the draft's at its position and
\* leaves the length and the other entries alone, or, when no entry has the
\* draft's id, prepends the new entry with an id no entry had; either way
\* the dialog is closed and the edit buffer is cleared.
C3_UpsertStep ==
    UserStep("upsertProject") =>
        /\ IF editing # NoProject /\ editing.id \in IdsOf(projects)
           THEN /\ Len(projects') = Len(projects)
                /\ \A i \in DOMAIN projects :
                      IF projects[i].id = editing.id
                      THEN projects'[i].id = editing.id
                      ELSE projects'[i] = projects[i]
           ELSE /\ Len(projects') = Len(projects) + 1
                /\ Tail(projects') = projects
                /\ Head(projects').id \notin IdsOf(projects)
        /\ ~open'
        /\ editing' = NoProject
        /\ form' = EmptyForm
        /\ faText' = EmptyFaText

C3_UpsertReplacesOrPrepends == [][C3_UpsertStep]_vars

\* C4: the dialog is closed only when the write of the upsert succeeded: as
\* long as the setDoc the last upsert issued has not succeeded, the dialog is
\* open.
C4_DialogOpenUntilWritten ==
    (/\ last.op = "upsertProject"
     /\ last.arg = "ok"
     /\ \E c \in pending :
           c.op = "setDoc" /\ c.cause = "upsertProject" /\ c.key = last.id)
    => open

\* C5: a confirmed delete of id X leaves no entry with id X and the other
\* entries as they were, in their order; no step of the remote store changes
\* the list afterwards; a delete that is not confirmed changes neither the
\* list nor the remote store.
C5_DeleteStep ==
    /\ (UserStep("removeProject") /\ last'.arg = "yes") =>
          /\ last'.id \notin IdsOf(projects')
          /\ LET Other(p) == p.id # last'.id
             IN projects' = SelectSeq(projects, Other)
    /\ (UserStep("removeProject") /\ last'.arg = "no") =>
          /\ projects' = projects
          /\ remote' = remote
          /\ pending' = pending
    /\ (RemoteStep /\ loadPc' = loadPc) => projects' = projects

C5_DeleteIsOptimistic == [][C5_DeleteStep]_vars

\* the remote delete failed and the entry stays deleted locally
C5_DeleteFailedNoRollback ==
    /\ last.op = "removeProject"
    /\ last.arg = "yes"
    /\ remote[last.id] # NoDoc
    /\ \A c \in pending : c.op # "deleteDoc"
    /\ last.id \notin IdsOf(projects)
    /\ Len(projects) > 0

\* C6: set task status changes only the status of the tasks with the given
\* id inside the projects with the given id: the other tasks of those
\* projects, their other fields, the other projects and both orders are
\* unchanged; with no such project or no such task the list is unchanged.
C6_StatusStep ==
    UserStep("setProjectTaskStatus") =>
        /\ Len(projects') = Len(projects)
        /\ \A i \in DOMAIN projects :
              LET p == projects[i]
                  p2 == projects'[i]
              IN IF p.id # last'.id THEN p2 = p
                 ELSE /\ [p2 EXCEPT !.tasks = p.tasks] = p
                      /\ Len(p2.tasks) = Len(p.tasks)
                      /\ \A j \in DOMAIN p.tasks :
                            IF p.tasks[j].id # last'.tid
                            THEN p2.tasks[j] = p.tasks[j]
                            ELSE p2.tasks[j] =
                                   [p.tasks[j] EXCEPT !.status = last'.arg]

C6_NoSuchTask ==
    \A pid \in AllKeys, tid \in TaskIds, st \in statusSet :
        (~\E i \in DOMAIN projects :
              /\ projects[i].id = pid
              /\ \E j \in DOMAIN projects[i].tasks : projects[i].tasks[j].id = tid)
        => setProjectTaskStatusUpdater(projects, pid, tid, st) = projects

C6_SetTaskStatusFrame == []C6_NoSuchTask /\ [][C6_StatusStep]_vars

\* one of two tasks of one of two projects got a new status
C6_OneTaskOfTwoChanged ==
    /\ last.op = "setProjectTaskStatus"
    /\ Len(projects) = 2
    /\ projects[1].id # projects[2].id
    /\ \E i \in DOMAIN projects :
          /\ projects[i].id = last.id
          /\ Len(projects[i].tasks) = 2
          /\ \E j, k \in DOMAIN projects[i].tasks :
                /\ projects[i].tasks[j].id = last.tid
                /\ projects[i].tasks[j].status = last.arg
                /\ projects[i].tasks[k].id # last.tid

\* C7: toggle archive changes exactly one entry, the targeted one, and only
\* its archived flag, and a second toggle restores the list; with "show
\* archived" off the targeted project, displayed before, is not displayed
\* after the toggle, and is displayed under the same tab and search with
\* "show archived" on.
C7_ToggleStep ==
    UserStep("toggleArchive") =>
        /\ Len(projects') = Len(projects)
        /\ Cardinality({i \in DOMAIN projects : projects'[i] # projects[i]}) = 1
        /\ \A i \in DOMAIN projects :
              projects'[i] # projects[i] =>
                 /\ projects[i].id = last'.id
                 /\ projects'[i] = [projects[i] EXCEPT !.archived = ~@]
        /\ toggleArchiveUpdater(projects', last'.id) = projects
        /\ ~showArchived =>
              \A p \in Range(displayed) :
                 p.id = last'.id =>
                    LET p2 == [p EXCEPT !.archived = TRUE]
                    IN /\ p2 \notin Range(filtered(projects', q, FALSE, tab, now, tz))
                       /\ p2 \in Range(filtered(projects', q, TRUE, tab, now, tz))

C7_ToggleArchiveOneProject == [][C7_ToggleStep]_vars

\* C8: the ids of the local list are pairwise distinct.
C8_IdsPairwiseDistinct ==
    \A i, j \in DOMAIN projects : i # j => projects[i].id # projects[j].id

\* C9: the mapper never raises, and the Project it returns has a deadline,
\* tasks with a status of statusSet and a boolean archived.
C9_MapperTotal ==
    mapped # NotMapped =>
        /\ mapped.ok
        /\ mapped.v.deadline # EmptyText
        /\ \A i \in DOMAIN mapped.v.tasks : mapped.v.tasks[i].status \in statusSet
        /\ mapped.v.archived \in BOOLEAN

\* C10, as stated: a well-formed Project that is stored and mapped again
\* comes back with its id, startDate, deadline and tasks, also when it has
\* no startDate.
C10_RoundTripKeepsStartDate ==
    (orig # NoProject /\ mapped # NotMapped) =>
        /\ mapped.ok
        /\ mapped.v.id = orig.id
        /\ mapped.v.startDate = orig.startDate
        /\ mapped.v.deadline = orig.deadline
        /\ mapped.v.tasks = orig.tasks

\* C10, amended: a well-formed Project that is stored and mapped again comes
\* back with its id, deadline and tasks, and with its startDate when it has
\* one; a Project without startDate comes back with the start date
\* defaultStartFromDeadline computes from its deadline.
C10_RoundTrip ==
    (orig # NoProject /\ mapped # NotMapped) =>
        /\ mapped.ok
        /\ mapped.v.id = orig.id
        /\ mapped.v.deadline = orig.deadline
        /\ mapped.v.tasks = orig.tasks
        /\ IF orig.startDate # NoStart
           THEN mapped.v.startDate = orig.startDate
           ELSE /\ mapped.v.startDate # NoStart
                /\ Ok(mapped.v.startDate) = defaultStartFromDeadline(orig.deadline, tz)

\* a Project with two tasks and no startDate was stored and mapped
C10_StoredAndMapped ==
    /\ orig # NoProject
    /\ mapped # NotMapped
    /\ mapped.ok
    /\ orig.startDate = NoStart
    /\ Len(orig.tasks) = 2
    /\ orig.tasks[1].id # orig.tasks[2].id

\* the set displayed under tab t, archived toggle sa and search text
Shown(t, sa, text) == Range(filtered(projects, text, sa, t, now, tz))

\* C11: whatever the list, the archived toggle and the search text, what is
\* displayed under overdue, week or ongoing is displayed under all; whatever
\* the tab and the toggle, what is displayed with a non-empty search text is
\* displayed with the empty one; nothing is displayed under both week and
\* overdue.
C11_FilterComposition ==
    \A sa \in BOOLEAN :
        /\ \A text \in SearchTexts, t \in Tabs :
              Shown(t, sa, text) \subseteq Shown("all", sa, text)
        /\ \A t \in Tabs, text \in SearchTexts \ {""} :
              Shown(t, sa, text) \subseteq Shown(t, sa, "")
        /\ \A text \in SearchTexts :
              Shown("week", sa, text) \cap Shown("overdue", sa, text) = {}

\* tab and search both narrow the displayed list
C11_TabAndSearchNarrow ==
    /\ tab = "overdue"
    /\ q = "Doc"
    /\ showArchived
    /\ Len(displayed) = 1
    /\ Len(projects) = 2
    /\ Shown("all", TRUE, "") # Shown("overdue", TRUE, "")
    /\ Shown("overdue", TRUE, "Doc") # {}

DoneCount(p) == Cardinality({i \in DOMAIN p.tasks : p.tasks[i].status = "done"})

\* p with task i moved between todo and ongoing
Moved(p, i) ==
    [p EXCEPT !.tasks[i].status = IF @ = "todo" THEN "ongoing" ELSE "todo"]

\* C12: projectProgress is 0 for an empty task list and round(100 * k / n)
\* when k of n > 0 tasks are done; it is an integer in 0..100, is 100 exactly
\* when all n > 0 tasks are done, and does not change when a task moves
\* between todo and ongoing.
C12_ProgressIsRoundedPercent ==
    (call.fn = "projectProgress" /\ ret # NoRet) =>
        LET p == call.p
            n == Len(p.tasks)
            k == DoneCount(p)
        IN /\ n = 0 => ret.v = 0
           /\ n > 0 => ret.v = (200 * k + n) \div (2 * n)
           /\ ret.v \in 0..100
           /\ (ret.v = 100) <=> (n > 0 /\ k = n)
           /\ \A i \in DOMAIN p.tasks :
                 p.tasks[i].status # "done" =>
                    projectProgress(Moved(p, i)) = ret.v

\* how often a holds among the projects of the list
CountProjects(Holds(_)) == Cardinality({i \in DOMAIN projects : Holds(projects[i])})

\* C13: the counters equal their definitions over the current list: active
\* counts the non-archived projects, ongoing the ongoing tasks of all
\* projects, archived or not, dueWeek the non-archived projects with
\* 0 <= daysUntil <= 7, overdue the non-archived ones with daysUntil < 0;
\* dueWeek + overdue <= active, and archiving or unarchiving any project
\* leaves ongoing as it is.
C13_CountersMatchDefinitions ==
    LET c == stats(projects, now, tz)
        days(p) == daysUntil(p.deadline, now, tz)
        IsActive(p) == ~p.archived
        IsWeek(p) == ~p.archived /\ ~days(p).nan /\ 0 <= days(p).n /\ days(p).n <= 7
        IsOverdue(p) == ~p.archived /\ ~days(p).nan /\ days(p).n < 0
    IN /\ c.total = CountProjects(IsActive)
       /\ c.ongoing = Cardinality(UNION {
                           {<<i, j>> : j \in {j \in DOMAIN projects[i].tasks :
                                                projects[i].tasks[j].status = "ongoing"}} :
                           i \in DOMAIN projects})
       /\ c.dueWeek = CountProjects(IsWeek)
       /\ c.overdue = CountProjects(IsOverdue)
       /\ c.dueWeek + c.overdue <= c.total
       /\ \A i \in DOMAIN projects :
             stats(toggleArchiveUpdater(projects, projects[i].id), now, tz).ongoing
                = c.ongoing

\* every project is archived and an ongoing task is still counted
C13_OngoingOfArchived ==
    /\ last.op = "toggleArchive"
    /\ Len(projects) = 2
    /\ stats(projects, now, tz).total = 0
    /\ stats(projects, now, tz).ongoing = 1

\* C14: daysUntil(d) is 0 at every instant of the local day d, negative once
\* the local day d is over, and does not increase when the clock advances.
C14_DaysUntilOfToday ==
    (call.fn = "daysUntil" /\ ret # NoRet) =>
        LET start == LocalMidnight(call.d.day, tz)
            next == LocalMidnight(call.d.day + 1, tz)
        IN /\ (start <= now /\ now < next) => ret.v = Number(0)
           /\ now >= next => (~ret.v.nan /\ ret.v.n < 0)
           /\ daysUntil(call.d, now + 1, tz).n <= ret.v.n

Mutations == {"upsertProject", "toggleArchive", "setProjectTaskStatus", "removeProject"}

\* C15: the remote calls a mutation of project A issues all go to the
\* document of A.
C15_MutationStep ==
    \A op \in Mutations :
        UserStep(op) => \A c \in pending' \ pending : c.key = last'.id

C15_WritesOnlyChangedRecord == [][C15_MutationStep]_vars

\* C16: a project loaded without a usable startDate gets the calendar day
\* 30 days before its deadline as startDate, in every local zone; a stored
\* non-empty startDate is kept.
C16_DefaultStartIs30DaysBefore ==
    (stored # NoDoc /\ mapped # NotMapped /\ mapped.ok) =>
        IF NonEmptyDateString(stored.data.startDate)
        THEN mapped.v.startDate = stored.data.startDate.s
        ELSE mapped.v.startDate = Iso(mapped.v.deadline.day - 30)

ViewOps ==
    {"setQ", "setTab", "setShowArchived", "prevMonth", "nextMonth", "openCreate",
     "openEdit", "cancel", "setForm", "setFaText", "blurFaText", "addTaskRow",
     "updateTask", "removeTaskRow"}

DraftOps == {"setForm", "setFaText", "blurFaText", "addTaskRow", "updateTask",
             "removeTaskRow"}

\* C17: a step that changes view state only (search, tab, archived toggle,
\* month cursor, opening or cancelling the dialog, editing the draft) leaves
\* the project list as it is and issues no remote call; an edit of the draft
\* also leaves the project being edited as it is.
C17_ViewStep ==
    /\ \A op \in ViewOps :
          UserStep(op) => (projects' = projects /\ pending' = pending /\ remote' = remote)
    /\ \A op \in DraftOps : UserStep(op) => editing' = editing

C17_ViewStepsLeaveListAlone == [][C17_ViewStep]_vars

\* the draft of a listed project has other tasks than the project
C17_DraftDiffersFromProject ==
    /\ open
    /\ editing # NoProject
    /\ last.op = "updateTask"
    /\ \E i \in DOMAIN projects :
          /\ projects[i].id = editing.id
          /\ projects[i].tasks = editing.tasks
          /\ projects[i].tasks # form.tasks

\* C18: in ready, once every call issued has completed and none is in
\* flight, the remote collection holds a document for exactly the ids of the
\* local list, each with the fields of the local record; a deleted project
\* has no document.
C18_RemoteEqualsLocalWhenQuiet ==
    (loaded /\ pending = {}) =>
        /\ \A k \in AllKeys : (remote[k] # NoDoc) <=> (k \in IdsOf(projects))
        /\ \A i \in DOMAIN projects :
              remote[projects[i].id] = ProjectData(projects[i])

\* the second session's view of document k is what the collection holds
PeerSettled(k) ==
    /\ peer.loaded
    /\ peer.pending = {}
    /\ k \in peer.touched
    /\ IF k \in IdsOf(peer.projects)
       THEN \E i \in DOMAIN peer.projects :
               /\ peer.projects[i].id = k
               /\ remote[k] = ProjectData(peer.projects[i])
       ELSE remote[k] = NoDoc

\* a setDoc that the last mutation of this session issued for a project
\* other than the one it changed resolves
OtherRecordWritten(c) ==
    /\ c \in pending /\ c.op = "setDoc"
    /\ pending' = pending \ {c}
    /\ remote' = [remote EXCEPT ![c.key] = MergeDoc(@, c.data)]
    /\ last.op \in Mutations
    /\ c.cause = last.op
    /\ c.key # last.id
    /\ \E i \in DOMAIN projects :
          projects[i].id = c.key /\ c.data = ProjectData(projects[i])

\* C19: a write that a mutation of project Y in one session issues never
\* changes the remote record of another project X that a second session has
\* edited or deleted: no lost update, no resurrection.
C19_PeerStep ==
    \A c \in pending :
        (OtherRecordWritten(c) /\ PeerSettled(c.key)) => remote'[c.key] = remote[c.key]

C19_PeerRecordKept == [][C19_PeerStep]_vars

\* C20: when the initial load completes, the list becomes the mapped remote
\* snapshot: a project created or changed while loading is not in the list
\* any more, no document of the collection belongs to it and no remote call
\* for it is in flight.
C20_LoadStep ==
    (loadPc = "fetching" /\ loadPc' = "done") =>
        /\ projects' = loadProjectsCloud(remote, now, tz, idSeq).v.rows
        /\ Len(projects') = Cardinality({k \in AllKeys : remote[k] # NoDoc})
        /\ \A i \in DOMAIN projects :
              /\ projects[i].id \notin IdsOf(projects')
              /\ remote'[projects[i].id] = NoDoc
              /\ \A c \in pending' : c.key # projects[i].id

C20_LoadReplacesList == [][C20_LoadStep]_vars

\* a project was created while loading, and the load has completed since
C20_LocalProjectDropped ==
    /\ last = Did("load", "-", "-", "done")
    /\ remote = Collection(OwnDoc("a"), NoDoc)
    /\ idSeq = 1
    /\ IdsOf(projects) = {"a"}
    /\ ~open

\* the setDoc the persist effect issues for project p when the load completes
LoadWrite(p) ==
    [op |-> "setDoc", key |-> p.id, data |-> ProjectData(p), cause |-> "load"]

\* the load completes: no event of the user, one write per loaded project,
\* carrying the mapped project
C21_LoadStep ==
    (loadPc = "fetching" /\ loadPc' = "done") =>
        /\ acts' = acts
        /\ loaded'
        /\ \A i \in DOMAIN projects' : LoadWrite(projects'[i]) \in pending' \ pending

\* document d holds what the mapper returns: tasks that pass isTask and have
\* an id, and a value of the mapped type in every defaulted field
Normalised(d) ==
    /\ IsArray(d.tasks)
    /\ \A j \in DOMAIN d.tasks.items :
          isTask(d.tasks.items[j]) /\ HasOwnId(d.tasks.items[j])
    /\ NonEmptyString(d.id)
    /\ IsString(d.name)
    /\ IsString(d.description)
    /\ IsArray(d.functionalAreas)
    /\ NonEmptyDateString(d.startDate)
    /\ NonEmptyDateString(d.deadline)
    /\ d.archived.t = "boolean"

\* a write of the load resolves: the document it addresses holds the written
\* fields, not the stored ones
C21_WriteStep ==
    \A c \in pending :
        (c.cause = "load" /\ pending' = pending \ {c}) =>
            /\ \A f \in DOMAIN c.data :
                  c.data[f] # Missing => remote'[c.key][f] = c.data[f]
            /\ Normalised(remote'[c.key])

====
